---- MODULE Spec2Model ----
(***************************************************************************)
(* Model of the screnners indicator engine (screnners/indicators.py,       *)
(* screnners/screener.py, screnners/data.py, screnners/cli.py).            *)
(*                                                                         *)
(* A price history is a record [dates, close, volume] of three sequences   *)
(* of equal length.  A date is a day ordinal counted from Saturday         *)
(* 2022-01-01 (ordinal 0); closes and volumes are integers (price ticks,   *)
(* shares); a missing observation is NaN.                                  *)
(*                                                                         *)
(* A moving average is a double in the code.  Here it is a fixed-point     *)
(* number <<u, a, b, c, e>>: u units of 1/Scale tick, three fraction       *)
(* digits a, b, c in base Limb, and e, a bound (in units of the last       *)
(* digit) on the distance between this number and the double the code      *)
(* holds.  A comparison of two such numbers that lie closer than their     *)
(* bounds is decided by the rounding of the doubles, which the model does  *)
(* not compute: its outcome is taken from the variable rounding.           *)
(***************************************************************************)
EXTENDS Integers, Sequences, FiniteSets

VARIABLES history, rounding, call, result

vars == <<history, rounding, call, result>>

(***************************************************************************)
(* Numeric conventions.                                                    *)
(***************************************************************************)

\* float("nan"): the missing observation / not-available sentinel.
NaN == -999999999

\* Fixed-point units per price tick for values derived from closes.
Scale == 5000

IsNaN(x) == x = NaN

Abs(x) == IF x < 0 THEN -x ELSE x

Max2(a, b) == IF a > b THEN a ELSE b

\* the largest / smallest member of a non-empty set of positions or numbers
SetMax(S) == CHOOSE x \in S : \A y \in S : y <= x

SetMin(S) == CHOOSE x \in S : \A y \in S : x <= y

\* the observations of a series: pandas reductions skip NaN
Observed(s) == {s[i] : i \in {j \in 1..Len(s) : ~IsNaN(s[j])}}

\* Series.max() and Series.min(): NaN when nothing is observed
SeriesMax(s) == IF Observed(s) = {} THEN NaN ELSE SetMax(Observed(s))

SeriesMin(s) == IF Observed(s) = {} THEN NaN ELSE SetMin(Observed(s))

RECURSIVE SumRange(_, _, _)
SumRange(s, lo, hi) ==
    IF lo > hi THEN 0
    ELSE IF lo = hi THEN s[lo]
    ELSE SumRange(s, lo, (lo + hi) \div 2) + SumRange(s, (lo + hi) \div 2 + 1, hi)

\* series.iloc[-k:]; -0 is 0, so iloc[-0:] is the whole series, and for a
\* negative k the slice is iloc[|k|:], the series without its first |k| values
Tail_(s, k) ==
    IF k = 0 THEN s
    ELSE IF k < 0 THEN SubSeq(s, 1 - k, Len(s))
    ELSE SubSeq(s, Max2(1, Len(s) - k + 1), Len(s))

\* series.dropna() on a sequence of plain values
DropNa(s) == SelectSeq(s, LAMBDA x : ~IsNaN(x))

\* an exception raised instead of a result
Raised(name) == [ok |-> FALSE, error |-> name]

(***************************************************************************)
(* Calendar: pandas DatetimeIndex, resample("M") and resample("W-FRI").    *)
(***************************************************************************)

\* First day ordinal of each month from January 2022 to January 2025.
MonthStart ==
    <<0, 31, 59, 90, 120, 151, 181, 212, 243, 273, 304, 334,
      365, 396, 424, 455, 485, 516, 546, 577, 608, 638, 669, 699,
      730, 761, 790, 821, 851, 882, 912, 943, 974, 1004, 1035, 1065, 1096>>

\* Timestamp.to_period("M").ordinal, counted from January 2022 = 0.
MonthOf(d) == Cardinality({m \in 1..Len(MonthStart) : MonthStart[m] <= d}) - 1

\* The Friday-ending week (Saturday..Friday) a day belongs to.
WeekOf(d) == d \div 7

IsBusinessDay(d) == (d % 7) \notin {0, 1}

\* freq = "B" rolls a start that falls on a weekend forward to the Monday
RollForward(d) ==
    IF d % 7 = 0 THEN d + 2 ELSE IF d % 7 = 1 THEN d + 1 ELSE d

\* The k-th business day after business day d (offset in business days).
BDayAdd(d, k) ==
    LET w == (d % 7) - 2
    IN  d - w + ((w + k) \div 5) * 7 + ((w + k) % 5)

\* pd.date_range(start, periods = n, freq = "B"), thinned to every stride-th day
BDateRange(start, n, stride) ==
    [i \in 1..n |-> BDayAdd(RollForward(start), (i - 1) * stride)]

\* Last business day of month m (0 = January 2022)
LastBDayOfMonth(m) ==
    SetMax({d \in (MonthStart[m + 2] - 3)..(MonthStart[m + 2] - 1) : IsBusinessDay(d)})

\* pd.bdate_range(start, end): the number of business days in start..end
BDaysBetween(start, end) == Cardinality({d \in start..end : IsBusinessDay(d)})

(***************************************************************************)
(* data.py: PriceHistory                                                   *)
(***************************************************************************)

\* The index of a frame: a DatetimeIndex of day ordinals, or the RangeIndex
\* 0, 1, ... of a frame built without dates
DatetimeIndex(days) == [kind |-> "DatetimeIndex", values |-> days]

RangeIndex(n) == [kind |-> "RangeIndex", values |-> [i \in 1..n |-> i - 1]]

\* index.is_monotonic_increasing
IsMonotonicIncreasing(values) ==
    \A i \in 1..(Len(values) - 1) : values[i] <= values[i + 1]

\* the rows in sorted order: row i comes after the rows of an earlier date
\* and the earlier rows of its own date
SortOrder(values) ==
    [k \in 1..Len(values) |->
        CHOOSE i \in 1..Len(values) :
            Cardinality({j \in 1..Len(values) :
                            \/ values[j] < values[i]
                            \/ values[j] = values[i] /\ j < i}) + 1 = k]

\* a column reordered (a frame without the column has none to reorder)
Reindex(column, order) ==
    IF Len(column) = 0 THEN column
    ELSE [k \in 1..Len(order) |-> column[order[k]]]

\* data.sort_index()
SortIndex(values, close, volume) ==
    LET order == SortOrder(values)
    IN  [dates |-> Reindex(values, order), close |-> Reindex(close, order),
         volume |-> Reindex(volume, order)]

\* PriceHistory.__post_init__
PriceHistory(index, close, volume) ==
    IF index.kind # "DatetimeIndex" THEN Raised("TypeError")
    ELSE IF IsMonotonicIncreasing(index.values)
    THEN [dates |-> index.values, close |-> close, volume |-> volume]
    ELSE SortIndex(index.values, close, volume)

\* PriceHistory.as_of
AsOf(h) == h.dates[Len(h.dates)]

\* series.resample(rule).last(): one entry per period between the first and
\* the last observed period; the last non-missing value of the period, NaN
\* for a period without one.  periods[i] is the period ordinal of date i.
ResampleLast(periods, values) ==
    IF Len(periods) = 0 THEN <<>>
    ELSE
    LET first == periods[1]
        last  == periods[Len(periods)]
        idx(p) == {i \in 1..Len(periods) : periods[i] = p /\ ~IsNaN(values[i])}
    IN  [k \in 1..(last - first + 1) |->
            LET p == first + k - 1
            IN  [period |-> p,
                 value  |-> IF idx(p) = {} THEN NaN ELSE values[SetMax(idx(p))]]]

\* dropna() on a resampled series
DropNaPeriods(s) == SelectSeq(s, LAMBDA x : ~IsNaN(x.value))

Values(s) == [i \in 1..Len(s) |-> s[i].value]

MonthlyClose(h) ==
    DropNaPeriods(ResampleLast([i \in 1..Len(h.dates) |-> MonthOf(h.dates[i])], h.close))

WeeklyClose(h) ==
    ResampleLast([i \in 1..Len(h.dates) |-> WeekOf(h.dates[i])], h.close)

(***************************************************************************)
(* indicators.py                                                           *)
(***************************************************************************)

\* _ensure_min_length: TRUE when the check passes, FALSE when it raises
\* ValueError("<name> requires at least <min_length> observations").
EnsureMinLength(series, min_length) == Len(series) >= min_length

----
\* green_line_breakout

DefaultMinBaseMonths == 3

GreenLineBreakoutResult(breakout, prior_high, last_close, months_since, base_months) ==
    [ok |-> TRUE, breakout |-> breakout, prior_high |-> prior_high,
     last_close |-> last_close, months_since_prior_high |-> months_since,
     base_months |-> base_months]

\* prior_high = float(prior_closes.max()), prior_closes = monthly_close.iloc[:-1]
PriorHigh(monthly_close) ==
    SetMax({monthly_close[i].value : i \in 1..(Len(monthly_close) - 1)})

\* (mutant) the first month at the prior high instead of the latest
FirstHighIdx(monthly_close, prior_high) ==
    SetMin({i \in 1..(Len(monthly_close) - 1) : monthly_close[i].value = prior_high})

\* prior_closes[prior_closes == prior_high].index[-1], as a position
LastHighIdx(monthly_close, prior_high) ==
    SetMax({i \in 1..(Len(monthly_close) - 1) : monthly_close[i].value = prior_high})

\* (mutant) the base taken from the prior high month itself
BaseClosesFromHigh(monthly_close, last_high_idx) ==
    SubSeq(monthly_close, last_high_idx, Len(monthly_close) - 1)

\* monthly_close.loc[base_mask]: after the prior high month, before the last
BaseCloses(monthly_close, last_high_idx) ==
    SubSeq(monthly_close, last_high_idx + 1, Len(monthly_close) - 1)

\* bool(base_closes.empty or (base_closes < prior_high).all())
BaseBelowPrior(base_closes, prior_high) ==
    \/ base_closes = <<>>
    \/ \A i \in 1..Len(base_closes) : base_closes[i].value < prior_high

\* breakout = bool(last_close > prior_high and base_months >= min_base_months
\*                 and base_below_prior)
GlbBreakout(last_close, prior_high, base_closes, min_base_months) ==
    /\ last_close > prior_high
    /\ Len(base_closes) >= min_base_months
    /\ BaseBelowPrior(base_closes, prior_high)

\* the confirming close: last weekly close, falling back to the last daily close
ConfirmingClose(h) ==
    LET weekly_close == DropNaPeriods(WeeklyClose(h))
    IN  IF weekly_close = <<>>
        THEN h.close[Len(h.close)]
        ELSE weekly_close[Len(weekly_close)].value

\* lines 60-89, once the prior high month is known
GlbAtHigh(monthly_close, last_high_idx, last_close, min_base_months) ==
    GreenLineBreakoutResult(
        GlbBreakout(last_close, monthly_close[last_high_idx].value,
                    BaseCloses(monthly_close, last_high_idx), min_base_months),
        monthly_close[last_high_idx].value,
        last_close,
        monthly_close[Len(monthly_close)].period - monthly_close[last_high_idx].period,
        Len(BaseCloses(monthly_close, last_high_idx)))

\* lines 53-89, on the monthly closes and the confirming close.  Without
\* any monthly close (the length check passes when min_base_months + 2 <= 0)
\* monthly_close.iloc[-1] of line 57 raises IndexError.
GlbOnMonthly(monthly_close, last_close, min_base_months) ==
    IF ~EnsureMinLength(monthly_close, min_base_months + 2)
    THEN Raised("green_line_breakout")
    ELSE IF Len(monthly_close) = 0 THEN Raised("IndexError")
    ELSE IF Len(monthly_close) = 1
    THEN GreenLineBreakoutResult(FALSE, NaN, monthly_close[1].value, NaN, 0)
    ELSE GlbAtHigh(monthly_close,
                   LastHighIdx(monthly_close, PriorHigh(monthly_close)),
                   last_close, min_base_months)

green_line_breakout(h, min_base_months) ==
    GlbOnMonthly(MonthlyClose(h), ConfirmingClose(h), min_base_months)

----
\* darvas_box_breakout.  max_volatility and breakout_buffer are fractions
\* given in percent (0.25 is 25, 0.02 is 2).

DefaultLookbackDays == 65
DefaultMaxVolatility == 25
DefaultBreakoutBuffer == 2

\* <<lookback_days, max_volatility, breakout_buffer>>: the defaults and the
\* arguments of test_darvas_box_breakout_requires_consolidation
DarvasChoices ==
    { <<DefaultLookbackDays, DefaultMaxVolatility, DefaultBreakoutBuffer>>,
      <<55, DefaultMaxVolatility, 1>> }

\* breakout_margin is kept exact, as a quotient (see FRat below), and by its
\* sign: 1, 0 or -1, 0 when it is not a number
DarvasBoxResult(breakout, box_high, box_low, margin_sign, breakout_margin) ==
    [ok |-> TRUE, breakout |-> breakout, box_high |-> box_high,
     box_low |-> box_low, margin_sign |-> margin_sign,
     breakout_margin |-> breakout_margin]

\* volatility <= max_volatility, where
\* volatility = (box_high - box_low) / box_low if box_low else np.inf.
\* The doubles are not computed: when the two sides are the same real number
\* the difference, the quotient and the fraction max_volatility are each
\* rounded, and which side ends up larger depends on the prices in currency
\* (at 100.0 and 125.0 the test passes, at 0.04 and 0.05 it fails); the
\* outcome is then tie.  A box of no height has volatility 0.0 exactly.
VolatilityOk(box_high, box_low, max_volatility, tie) ==
    IF box_low = 0 THEN FALSE
    ELSE IF (box_high - box_low) * 100 = max_volatility * box_low
    THEN box_high = box_low \/ tie
    ELSE IF box_low > 0
         THEN (box_high - box_low) * 100 < max_volatility * box_low
         ELSE (box_high - box_low) * 100 > max_volatility * box_low

\* last_close >= box_high * (1 + breakout_buffer); false for a NaN close.
\* 1 + breakout_buffer and its product with box_high are rounded: when
\* last_close is the real number box_high * (1 + breakout_buffer) the
\* double on the right may fall on either side of it (-100 * 1.13 is
\* -112.99999999999999 and 150 * 0.82 is 123.00000000000001), and the
\* outcome is tie.  With breakout_buffer = 0 the right side is box_high.
ClearsBox(last_close, box_high, breakout_buffer, tie) ==
    /\ ~IsNaN(last_close)
    /\ IF last_close * 100 = box_high * (100 + breakout_buffer)
       THEN breakout_buffer = 0 \/ tie
       ELSE last_close * 100 > box_high * (100 + breakout_buffer)

\* the sign of breakout_margin = last_close / box_high - 1, box_high not 0
MarginSign(last_close, box_high) ==
    IF IsNaN(last_close) THEN 0
    ELSE IF box_high > 0
    THEN (IF last_close > box_high THEN 1
          ELSE IF last_close = box_high THEN 0 ELSE -1)
    ELSE (IF last_close < box_high THEN 1
          ELSE IF last_close = box_high THEN 0 ELSE -1)

\* breakout_margin = last_close / box_high - 1, box_high not 0
BreakoutMargin(last_close, box_high) ==
    IF IsNaN(last_close) THEN [kind |-> "nan", num |-> 0, den |-> 1]
    ELSE [kind |-> "num", num |-> last_close - box_high, den |-> box_high]

\* lines 120-126, on the box bounds and the last close of the window.  A
\* window without an observation has NaN bounds: every comparison with NaN
\* is false and the margin is NaN.  last_close / box_high divides two Python
\* floats and raises ZeroDivisionError when box_high is 0.
DarvasOnBox(box_high, box_low, last_close, max_volatility, breakout_buffer, tie) ==
    IF IsNaN(box_high)
    THEN DarvasBoxResult(FALSE, NaN, NaN, 0, BreakoutMargin(NaN, NaN))
    ELSE IF box_high = 0 THEN Raised("ZeroDivisionError")
    ELSE DarvasBoxResult(/\ VolatilityOk(box_high, box_low, max_volatility,
                                         tie)
                         /\ ClearsBox(last_close, box_high, breakout_buffer,
                                      tie),
                         box_high, box_low, MarginSign(last_close, box_high),
                         BreakoutMargin(last_close, box_high))

\* (mutant) the box drawn over the window without its last close
DarvasOnEarlierBox(reference, max_volatility, breakout_buffer, tie) ==
    DarvasOnBox(SeriesMax(SubSeq(reference, 1, Len(reference) - 1)),
                SeriesMin(SubSeq(reference, 1, Len(reference) - 1)),
                reference[Len(reference)],
                max_volatility, breakout_buffer, tie)

\* lines 119-126, on reference = close.iloc[-lookback_days:];
\* reference.iloc[-1] raises IndexError on an empty window
DarvasOnReference(reference, max_volatility, breakout_buffer, tie) ==
    IF Len(reference) = 0 THEN Raised("IndexError")
    ELSE DarvasOnBox(SeriesMax(reference), SeriesMin(reference),
                     reference[Len(reference)],
                     max_volatility, breakout_buffer, tie)

\* tie.box is how the comparisons of line 124 come out on equal reals
darvas_box_breakout(h, lookback_days, max_volatility, breakout_buffer, tie) ==
    IF ~EnsureMinLength(h.close, lookback_days)
    THEN Raised("darvas_box_breakout")
    ELSE DarvasOnReference(Tail_(h.close, lookback_days),
                           max_volatility, breakout_buffer, tie.box)

----
\* Doubles.  <<u, a, b, c, e>> stands for the double within e units of the
\* last digit of (u + a / Limb + b / Limb^2 + c / Limb^3) / Scale ticks.

Limb == 16384

FloatNaN == <<NaN, 0, 0, 0, 0>>

IsNaNF(x) == x[1] = NaN

\* float(v) for a whole number of units
Exact(v) == IF IsNaN(v) THEN FloatNaN ELSE <<v, 0, 0, 0, 0>>

Floats(series) == [i \in 1..Len(series) |-> Exact(series[i])]

\* carries moved up, digit by digit
Carry3(u, a, b, c, e) ==
    << u + (a + (b + c \div Limb) \div Limb) \div Limb,
       (a + (b + c \div Limb) \div Limb) % Limb,
       (b + c \div Limb) % Limb,
       c % Limb,
       e >>

\* long division by a small number d: the remainder r of the digits so far
\* goes with the next digit
Rest(r, digit, d) == (r % d) * Limb + digit

Div(x, d) ==
    << x[1] \div d,
       Rest(x[1], x[2], d) \div d,
       Rest(Rest(x[1], x[2], d), x[3], d) \div d,
       Rest(Rest(Rest(x[1], x[2], d), x[3], d), x[4], d) \div d,
       x[5] >>

\* x - y; the bounds add up
Minus(x, y) == Carry3(x[1] - y[1], x[2] - y[2], x[3] - y[3], x[4] - y[4], x[5] + y[5])

\* What one step of the moving average adds to the bound: four roundings
\* of half an ulp, an ulp being at most 2^-52 of the magnitude (Limb^3 =
\* 2^42 last digits make a unit), and one last digit for the model's own
\* rounding down.
StepError(x, y) == Max2(Abs(x[1]), Abs(y[1])) \div 512 + 2

\* d > e, resp. d >= e, for e = d[5] last digits (a fraction with d[2] < 8
\* is below 2^31 last digits)
Exceeds(d) ==
    \/ d[1] >= 1
    \/ d[1] = 0 /\ (d[2] >= 8 \/ d[2] * Limb * Limb + d[3] * Limb + d[4] > d[5])

Reaches(d) ==
    \/ d[1] >= 1
    \/ d[1] = 0 /\ (d[2] >= 8 \/ d[2] * Limb * Limb + d[3] * Limb + d[4] >= d[5])

\* x > y on doubles: true or false when the numbers are further apart than
\* their bounds (or are the same exact number), else what the rounding makes it
FloatGt(x, y, tie) ==
    IF IsNaNF(x) \/ IsNaNF(y) THEN FALSE
    ELSE IF Exceeds(Minus(x, y)) THEN TRUE
    ELSE IF Reaches(Minus(y, x)) THEN FALSE
    ELSE tie

\* the difference of two doubles: nought when they are the same double,
\* else one more rounding, of half an ulp of the difference
FloatSub(x, y) ==
    IF IsNaNF(x) \/ IsNaNF(y) THEN FloatNaN
    ELSE IF x = y /\ x[5] = 0 THEN Exact(0)
    ELSE Carry3(x[1] - y[1], x[2] - y[2], x[3] - y[3], x[4] - y[4],
                x[5] + y[5] + Abs(x[1] - y[1]) \div 2048 + 1)

----
\* The spans of the moving averages: rwb_pattern's ribbons and _macd's lines
ShortSpans == {3, 5, 8, 10, 12, 15}
LongSpans == {30, 35, 40, 45, 50, 60}

MacdFast == 12
MacdSlow == 26
MacdSignal == 9

----
\* Wide numbers, for the weights of an average that resumes after missing
\* observations: digit sequences in base Limb, one whole digit followed by
\* fraction digits (a number below nought has its whole digit below nought).

Wide == 6

\* x compared with itself: TLC computes an operand before it is used
Computed(x) == x = x

\* a function computed once, instead of at each application
Forced(f) == IF f = f THEN f ELSE f

RECURSIVE Carried(_, _, _)
Carried(raw, k, carry) ==
    IF k = 1 THEN <<raw[1] + carry>>
    ELSE Append(Carried(raw, k - 1, (raw[k] + carry) \div Limb),
                (raw[k] + carry) % Limb)

RECURSIVE Divided(_, _, _, _)
Divided(x, d, k, r) ==
    IF k > Len(x) THEN <<>>
    ELSE <<(r * Limb + x[k]) \div d>>
             \o Divided(x, d, k + 1, (r * Limb + x[k]) % d)

\* x + sign * y
WideSum(x, y, sign) ==
    IF Computed(x) /\ Computed(y)
    THEN Carried([i \in 1..Wide |-> x[i] + sign * y[i]], Wide, 0)
    ELSE x

\* digit i of x times the digit of y that brings it to place k
Term(x, y, k, i) == IF i > k THEN 0 ELSE x[i] * y[k + 1 - i]

\* the product, cut after the last digit
WideMul(x, y) ==
    IF Computed(x) /\ Computed(y)
    THEN Carried([k \in 1..Wide |->
                     Term(x, y, k, 1) + Term(x, y, k, 2) + Term(x, y, k, 3)
                         + Term(x, y, k, 4) + Term(x, y, k, 5) + Term(x, y, k, 6)],
                 Wide, 0)
    ELSE x

RECURSIVE WidePow(_, _)
WidePow(x, n) == IF n = 1 THEN x ELSE WideMul(x, WidePow(x, n - 1))

\* a guess x of 1 / m refined n times to x * (2 - m * x), which doubles the
\* number of right digits
RECURSIVE Refined(_, _, _)
Refined(m, x, n) ==
    IF n = 0 THEN x
    ELSE Refined(m, WideMul(x, WideSum(<<2, 0, 0, 0, 0, 0>>, WideMul(m, x), -1)),
                 n - 1)

\* 1 / m for 1/32 < m <= 1: a first guess from the two leading digits,
\* refined three times
Reciprocal(m) ==
    IF Computed(m)
    THEN Refined(m,
                 [i \in 1..Wide |->
                     IF i = 1 THEN ((Limb * Limb) \div (m[1] * Limb + m[2])) \div Limb
                     ELSE IF i = 2 THEN ((Limb * Limb) \div (m[1] * Limb + m[2])) % Limb
                     ELSE 0],
                 3)
    ELSE m

----
\* ema: series.ewm(span = span, adjust = False).mean(), alpha = 2 / (span + 1).
\* The running state is the weighted average so far and the number of
\* consecutive missing observations since it was last updated.

\* old_wt_factor = 1 - alpha and new_wt = alpha, as wide numbers
OldWtFactor(span) == Divided(<<span - 1, 0, 0, 0, 0, 0>>, span + 1, 1, 0)

NewWt(span) == Divided(<<2, 0, 0, 0, 0, 0>>, span + 1, 1, 0)

\* new_wt / (old_wt + new_wt) with old_wt = (1 - alpha) ^ (gap + 1).  The
\* kernel of ewm resets new_wt to 1 - old_wt before every update when
\* com = (span - 1) / 2 is 1 ("if not adjust and com == 1"), that is for
\* span 3: without a gap this is alpha again, after a gap it is not.
CurWeight(span, gap) ==
    LET old_wt == WidePow(OldWtFactor(span), gap + 1)
        new_wt == IF span - 1 = 2
                  THEN WideSum(<<1, 0, 0, 0, 0, 0>>, old_wt, -1)
                  ELSE NewWt(span)
    IN  WideMul(new_wt, Reciprocal(WideSum(old_wt, new_wt, 1)))

\* w times the difference d, as a wide number whose first two digits are
\* the units (the first digit carries the sign)
Share(d, w) == WideMul(<<d[1] \div Limb, d[1] % Limb, d[2], d[3], d[4], 0>>, w)

\* avg plus the share q, with the bound e
Shifted(avg, q, e) ==
    IF Computed(q)
    THEN Carry3(avg[1] + q[1] * Limb + q[2], avg[2] + q[3], avg[3] + q[4],
                avg[4] + q[5], e)
    ELSE avg

\* The weights of the spans the detectors use, for gaps of up to MaxGap
\* missing observations, computed once.
MaxGap == 5

CurWeights ==
    Forced([span \in ShortSpans \cup LongSpans \cup {MacdFast, MacdSlow, MacdSignal},
            gap \in 1..MaxGap |-> CurWeight(span, gap)])

\* the weight from the table when it holds it
WeightFor(weights, span, gap) ==
    IF <<span, gap>> \in DOMAIN weights
    THEN weights[span, gap]
    ELSE CurWeight(span, gap)

\* weighted = (old_wt * weighted + new_wt * cur) / (old_wt + new_wt) after
\* gap missing observations: old_wt = (1 - alpha) ^ (gap + 1), new_wt = alpha
GapUpdate(avg, gap, cur, span) ==
    IF avg = cur /\ avg[5] = 0 THEN avg
    ELSE Shifted(avg, Share(Minus(cur, avg), WeightFor(CurWeights, span, gap)),
                 Max2(avg[5], cur[5]) + (gap + 3) * StepError(avg, cur))

\* the same with no observation missing: old_wt = 1 - alpha, so
\* weighted = ((span - 1) * weighted + 2 * cur) / (span + 1); the code skips
\* the update when weighted == cur ("if weighted != cur")
EwmUpdate(avg, cur, span) ==
    IF avg = cur /\ avg[5] = 0 THEN avg
    ELSE Div(Carry3((span - 1) * avg[1] + 2 * cur[1],
                    (span - 1) * avg[2] + 2 * cur[2],
                    (span - 1) * avg[3] + 2 * cur[3],
                    (span - 1) * avg[4] + 2 * cur[4],
                    ((span - 1) * avg[5] + 2 * cur[5]) \div (span + 1)
                        + StepError(avg, cur)),
             span + 1)

EwmStep(st, cur, span) ==
    IF IsNaNF(st.avg)
    THEN [avg |-> cur, gap |-> 0]
    ELSE IF IsNaNF(cur)
         THEN [avg |-> st.avg, gap |-> st.gap + 1]
         ELSE IF st.gap = 0
              THEN [avg |-> EwmUpdate(st.avg, cur, span), gap |-> 0]
              ELSE [avg |-> GapUpdate(st.avg, st.gap, cur, span), gap |-> 0]

\* The averages for positions lo..hi, started from the state st before lo
\* (the range is cut in four pieces, each started from the state the
\* previous one ended in and computed before the next, so that the
\* evaluation stays shallow).
RECURSIVE EwmRange(_, _, _, _, _)
EwmRange(series, span, lo, hi, st) ==
    IF lo > hi THEN [st |-> st, out |-> <<>>]
    ELSE IF lo = hi
    THEN LET nx == IF lo = 1 THEN [avg |-> series[1], gap |-> 0]
                   ELSE EwmStep(st, series[lo], span)
         IN  [st |-> nx, out |-> <<nx.avg>>]
    ELSE LET q == (hi - lo + 4) \div 4
             a == EwmRange(series, span, lo, lo + q - 1, st)
             b == EwmRange(series, span, lo + q, lo + 2 * q - 1, a.st)
             c == EwmRange(series, span, lo + 2 * q, IF lo + 3 * q - 1 < hi THEN lo + 3 * q - 1 ELSE hi, b.st)
             d == EwmRange(series, span, lo + 3 * q, hi, c.st)
         IN  [out |-> a.out \o b.out \o c.out \o d.out, st |-> d.st]

\* ema of a series of doubles
ema(series, span) ==
    IF Len(series) = 0 THEN <<>>
    ELSE EwmRange(series, span, 1, Len(series), [avg |-> FloatNaN, gap |-> 0]).out

\* sma at position i: series.rolling(window, min_periods = window).mean(),
\* a double.  NaN before the window fills or when an observation of the
\* window is missing.  On a window that holds one value throughout the
\* rolling mean returns that value; on any other it returns the running sum
\* of the window over window, with the roundings of the additions and
\* removals that made the sum.
sma(series, window, i) ==
    IF i < window \/ (\E j \in (i - window + 1)..i : IsNaN(series[j]))
    THEN FloatNaN
    ELSE IF \A j \in (i - window + 1)..i : series[j] = series[i]
    THEN Exact(series[i])
    ELSE Div(<< SumRange(series, i - window + 1, i), 0, 0, 0,
                Abs(SumRange(series, i - window + 1, i)) \div 512 + 2 >>,
             window)

Latest(series) == series[Len(series)]

\* float(close): the closes in units
FixSeries(close) ==
    [i \in 1..Len(close) |-> IF IsNaN(close[i]) THEN NaN ELSE close[i] * Scale]

----
\* rwb_pattern

RwbMargin == 5

RWBResult(rwb, ribbon_spread) ==
    [ok |-> TRUE, rwb |-> rwb, ribbon_spread |-> ribbon_spread]

\* the spans whose latest EMA is a number
Known(latest, spans) == {s \in spans : ~IsNaNF(latest[s])}

\* the sum of digit i of the doubles f[x], x in S.  The sum of the bounds
\* (i = 5) takes in the roundings of the row sum and of its division: n - 1
\* additions and a division of numbers no larger than the sum A of the
\* magnitudes are off by less than A / 1024 last digits, and StepError
\* counts twice that for every term.
RECURSIVE SetSum(_, _, _)
SetSum(f, S, i) ==
    IF S = {} THEN 0
    ELSE LET x == CHOOSE y \in S : TRUE
         IN  (IF i = 5 THEN f[x][5] + StepError(f[x], f[x]) ELSE f[x][i])
               + SetSum(f, S \ {x}, i)

\* latest.mean(): the sum of the known latest EMAs over their number
RowMean(latest, known) ==
    Div(Carry3(SetSum(latest, known, 1), SetSum(latest, known, 2),
               SetSum(latest, known, 3), SetSum(latest, known, 4),
               SetSum(latest, known, 5)),
        Cardinality(known))

\* every double of X above every double of Y, that is X.min() > Y.max();
\* false when one side has no number
AllAbove(X, Y, tie) ==
    IF X = {} \/ Y = {} THEN FALSE
    ELSE IF \A x \in X, y \in Y : Exceeds(Minus(x, y)) THEN TRUE
    ELSE IF \E x \in X, y \in Y : Reaches(Minus(y, x)) THEN FALSE
    ELSE tie

\* the numbers among the latest EMAs
Numbers(latest, spans) == {latest[s] : s \in Known(latest, spans)}

\* (mutant) the ribbons compared the other way round
StackedReversed(latest_short, latest_long, latest_price, tie) ==
    /\ AllAbove(Numbers(latest_long, LongSpans),
                Numbers(latest_short, ShortSpans), tie.stack)
    /\ AllAbove(Numbers(<<latest_price>>, {1}),
                Numbers(latest_short, ShortSpans), tie.price)

\* bool(latest_short.min() > latest_long.max() and latest_price > latest_short.max())
Stacked(latest_short, latest_long, latest_price, tie) ==
    /\ AllAbove(Numbers(latest_short, ShortSpans),
                Numbers(latest_long, LongSpans), tie.stack)
    /\ AllAbove(Numbers(<<latest_price>>, {1}),
                Numbers(latest_short, ShortSpans), tie.price)

\* float(latest_short.mean() - latest_long.mean()), a double with its bound.
\* The mean of a row in which nothing is known is NaN.  Two rows of as many
\* numbers that all are one and the same double (a flat series) have the
\* same mean, computed the same way, and the spread is 0.0.
RibbonSpread(latest_short, latest_long) ==
    IF Known(latest_short, ShortSpans) = {} \/ Known(latest_long, LongSpans) = {}
    THEN FloatNaN
    ELSE IF /\ Cardinality(Known(latest_short, ShortSpans))
                = Cardinality(Known(latest_long, LongSpans))
            /\ \E v \in Numbers(latest_short, ShortSpans) :
                  /\ v[5] = 0
                  /\ Numbers(latest_short, ShortSpans) = {v}
                  /\ Numbers(latest_long, LongSpans) = {v}
    THEN Exact(0)
    ELSE FloatSub(RowMean(latest_short, Known(latest_short, ShortSpans)),
                  RowMean(latest_long, Known(latest_long, LongSpans)))

\* short_emas.iloc[-1] / long_emas.iloc[-1]: the latest EMA of every span
LatestEmas(close, spans) == Forced([s \in spans |-> Latest(ema(close, s))])

\* lines 154-161, on the latest EMAs and the latest price
RwbOnLatest(latest_short, latest_long, latest_price, tie) ==
    RWBResult(Stacked(latest_short, latest_long, latest_price, tie),
              RibbonSpread(latest_short, latest_long))

\* lines 150-161, on the close series
RwbOnClose(close, tie) ==
    IF ~EnsureMinLength(close, SetMax(LongSpans) + RwbMargin)
    THEN Raised("rwb_pattern")
    ELSE RwbOnLatest(LatestEmas(Floats(close), ShortSpans),
                     LatestEmas(Floats(close), LongSpans),
                     Exact(Latest(close)), tie)

rwb_pattern(h, tie) == RwbOnClose(FixSeries(h.close), tie)

----
\* _macd and bongo

BongoMinLength == 50
SlopeWindow == 10

\* macd_line = fast_ema - slow_ema, computed before the signal line is started
MacdLine(fast_ema, slow_ema) ==
    Forced([i \in 1..Len(fast_ema) |-> FloatSub(fast_ema[i], slow_ema[i])])

\* _macd, given the macd line
WithSignal(macd_line) ==
    [macd_line |-> macd_line, signal_line |-> ema(macd_line, MacdSignal)]

\* _macd on a series of doubles
Macd(series) == WithSignal(MacdLine(ema(series, MacdFast), ema(series, MacdSlow)))

\* macd and signal are doubles with their bounds
BongoResult(timeframe, is_on, macd, signal, slope_positive) ==
    [ok |-> TRUE, timeframe |-> timeframe, is_on |-> is_on, macd |-> macd,
     signal |-> signal, slope_positive |-> slope_positive]

\* the close series bongo works on: daily closes, or close.resample("W-FRI").last()
BongoClose(h, timeframe) ==
    IF timeframe = "W" THEN FixSeries(Values(WeeklyClose(h)))
    ELSE FixSeries(h.close)

\* slope = ma10.iloc[-1] - ma10.iloc[-3], a double: 0.0 when both means are
\* the same value of a flat window, else their difference with its bound
Slope(close) ==
    FloatSub(sma(close, SlopeWindow, Len(close)),
             sma(close, SlopeWindow, Len(close) - 2))

\* (mutant) the MACD line required below its signal line
BongoIsOnBelowSignal(macd, signal, slope, tie) ==
    FloatGt(signal, macd, tie.macd) /\ FloatGt(slope, Exact(0), tie.slope)

\* macd_line.iloc[-1] > signal_line.iloc[-1] and slope > 0; tie.slope is how
\* slope > 0 comes out when the two means hold the same real number
BongoIsOn(macd, signal, slope, tie) ==
    FloatGt(macd, signal, tie.macd) /\ FloatGt(slope, Exact(0), tie.slope)

\* lines 203-205, on the latest macd and signal and the slope
BongoOnLatest(timeframe, macd, signal, slope, tie) ==
    BongoResult(timeframe, BongoIsOn(macd, signal, slope, tie),
                macd, signal, FloatGt(slope, Exact(0), tie.slope))

\* lines 200-205
BongoOnMacd(timeframe, m, slope, tie) ==
    BongoOnLatest(timeframe, Latest(m.macd_line), Latest(m.signal_line), slope, tie)

\* lines 198-205, on the close series of the timeframe
BongoOnClose(timeframe, close, tie) ==
    IF ~EnsureMinLength(close, BongoMinLength)
    THEN Raised("bongo")
    ELSE BongoOnMacd(timeframe, Macd(Floats(close)), Slope(close), tie)

\* the comparisons of line 203 come out as the roundings of the timeframe say
bongo(h, timeframe, tie) ==
    IF timeframe \notin {"D", "W"}
    THEN Raised("timeframe")
    ELSE BongoOnClose(timeframe, BongoClose(h, timeframe),
                      IF timeframe = "W"
                      THEN [macd |-> tie.weekly, slope |-> tie.weekly_slope]
                      ELSE [macd |-> tie.daily, slope |-> tie.daily_slope])

----
\* The comparisons the rounding of the doubles may decide: the two of
\* rwb_pattern line 158, the two of bongo line 203 on either timeframe, those
\* of darvas_box_breakout line 124 and that of wish_strategy line 266.
\* A rounding says how each comes out when it is that close.

Choices(undecided) == IF undecided THEN BOOLEAN ELSE {FALSE}

\* the comparisons of rwb_pattern that come out as the rounding says
RwbUndecided(latest_short, latest_long, latest_price) ==
    << /\ AllAbove(Numbers(latest_short, ShortSpans),
                   Numbers(latest_long, LongSpans), TRUE)
       /\ ~AllAbove(Numbers(latest_short, ShortSpans),
                    Numbers(latest_long, LongSpans), FALSE),
       /\ AllAbove(Numbers(<<latest_price>>, {1}),
                   Numbers(latest_short, ShortSpans), TRUE)
       /\ ~AllAbove(Numbers(<<latest_price>>, {1}),
                    Numbers(latest_short, ShortSpans), FALSE) >>

RwbUndecidedOn(close) ==
    IF ~EnsureMinLength(close, SetMax(LongSpans) + RwbMargin)
    THEN <<FALSE, FALSE>>
    ELSE RwbUndecided(LatestEmas(Floats(close), ShortSpans),
                      LatestEmas(Floats(close), LongSpans),
                      Exact(Latest(close)))

\* macd > signal comes out as the rounding says
MacdUndecided(m) ==
    /\ FloatGt(Latest(m.macd_line), Latest(m.signal_line), TRUE)
    /\ ~FloatGt(Latest(m.macd_line), Latest(m.signal_line), FALSE)

BongoUndecidedOn(close) ==
    /\ EnsureMinLength(close, BongoMinLength)
    /\ MacdUndecided(Macd(Floats(close)))

\* slope > 0 comes out as the rounding says
SlopeUndecidedOn(close) ==
    /\ EnsureMinLength(close, BongoMinLength)
    /\ FloatGt(Slope(close), Exact(0), TRUE)
    /\ ~FloatGt(Slope(close), Exact(0), FALSE)

----
\* wish_strategy.  breakout_volume_multiple is given in percent (1.5 is 150).
\* A float that is a quotient of two integers is kept exact:
\* [kind, num, den] with kind "num", "inf" or "nan".

DefaultVolumeWindow == 50
DefaultVolumeMultiple == 150

FNaN == [kind |-> "nan", num |-> 0, den |-> 1]
FInf == [kind |-> "inf", num |-> 1, den |-> 0]
FRat(n, d) == [kind |-> "num", num |-> n, den |-> d]

\* an omitted keyword argument
None == [ok |-> FALSE, error |-> "None"]

\* volume_ratio as computed from last_volume and the window sum
\* (average_volume = window_sum / window; the mean of a window of no
\* observation is NaN, which is not > 0)
VolumeRatio(last_volume, window_sum, window) ==
    IF window > 0 /\ window_sum > 0 THEN FRat(last_volume * window, window_sum)
    ELSE IF last_volume > 0 THEN FInf
    ELSE FNaN

\* bool(volume_ratio >= breakout_volume_multiple).  The ratio is the double
\* last_volume / average_volume, the average itself a rounded rolling mean:
\* when the exact quotient is the multiple, the double may fall on either
\* side of it (3 / 3.3333333333333335 is 0.8999999999999999, below 0.9) and
\* the outcome is tie.  A ratio of 0.0 is exact.
RatioAtLeast(ratio, multiple, tie) ==
    \/ ratio.kind = "inf"
    \/ /\ ratio.kind = "num"
       /\ IF ratio.num * 100 = multiple * ratio.den
          THEN ratio.num = 0 \/ tie
          ELSE ratio.num * 100 > multiple * ratio.den

VolumeOutcome(last_volume, average_volume, volume_ratio, volume_ok) ==
    [ok |-> TRUE, last_volume |-> last_volume, average_volume |-> average_volume,
     volume_ratio |-> volume_ratio, volume_ok |-> volume_ok]

\* lines 261-266, on the latest volume and the sum of the window;
\* rolling(window) raises ValueError("window must be an integer 0 or
\* greater") on a window below nought
VolumeOnWindow(last_volume, window_sum, volume_window, breakout_volume_multiple, tie) ==
    IF volume_window < 0 THEN Raised("window")
    ELSE VolumeOutcome(last_volume,
                       IF volume_window = 0 THEN FNaN
                       ELSE FRat(window_sum, volume_window),
                       VolumeRatio(last_volume, window_sum, volume_window),
                       RatioAtLeast(VolumeRatio(last_volume, window_sum, volume_window),
                                    breakout_volume_multiple, tie))

\* lines 258-266, on volume_series = volume_series.dropna()
VolumeOnSeries(volume_series, volume_window, breakout_volume_multiple, tie) ==
    IF Len(volume_series) = 0
    THEN VolumeOutcome(NaN, FNaN, FNaN, FALSE)
    ELSE IF Len(volume_series) < volume_window
    THEN VolumeOutcome(Latest(volume_series), FNaN, FNaN, FALSE)
    ELSE VolumeOnWindow(Latest(volume_series),
                        SumRange(volume_series,
                                 Len(volume_series) - volume_window + 1,
                                 Len(volume_series)),
                        volume_window, breakout_volume_multiple, tie)

\* the volume block of wish_strategy (a history without a Volume column has
\* volume = <<>>: for it the code skips the block as it does for a column
\* with no observation left)
VolumeTest(h, volume_window, breakout_volume_multiple, tie) ==
    VolumeOnSeries(DropNa(h.volume), volume_window, breakout_volume_multiple,
                   tie)

\* (mutant) the volume test left out of the conjunction
QualifiesWithoutVolume(glb, rwb, bongo_daily, bongo_weekly, volume_ok) ==
    /\ glb.breakout
    /\ rwb.rwb
    /\ bongo_daily.is_on
    /\ bongo_weekly.is_on

\* qualifies = bool(glb.breakout and rwb.rwb and bongo_daily.is_on
\*                  and bongo_weekly.is_on and volume_ok)
Qualifies(glb, rwb, bongo_daily, bongo_weekly, volume_ok) ==
    /\ glb.breakout
    /\ rwb.rwb
    /\ bongo_daily.is_on
    /\ bongo_weekly.is_on
    /\ volume_ok

WishStrategyResult(glb, rwb, bongo_daily, bongo_weekly, v, volume_requirement) ==
    [ok |-> TRUE,
     qualifies |-> Qualifies(glb, rwb, bongo_daily, bongo_weekly, v.volume_ok),
     glb |-> glb, rwb |-> rwb,
     bongo_daily |-> bongo_daily, bongo_weekly |-> bongo_weekly,
     last_volume |-> v.last_volume,
     average_volume |-> v.average_volume,
     volume_ratio |-> v.volume_ratio,
     volume_requirement |-> volume_requirement,
     volume_ok |-> v.volume_ok]

\* (mutant) the detector is run whatever the caller supplied
AlwaysCompute(given, computed) == computed

\* "if x is None: x = detector(history)"
OrCompute(given, computed) == IF given = None THEN computed ELSE given

\* (mutant) the error of the last call that raises
LastRaised(outcomes) ==
    outcomes[SetMax({i \in 1..Len(outcomes) : ~outcomes[i].ok})]

\* Calls made one after the other: the first that raises ends the caller
\* with its error.
FirstRaised(outcomes) ==
    outcomes[SetMin({i \in 1..Len(outcomes) : ~outcomes[i].ok})]

AllRan(outcomes) == \A i \in 1..Len(outcomes) : outcomes[i].ok

\* lines 250-287, on the outcomes of lines 241-248; the error of the
\* volume block ends the call as a detector's does
WishOnOutcomes(h, outcomes, volume_window, breakout_volume_multiple, tie) ==
    IF ~AllRan(outcomes) THEN FirstRaised(outcomes)
    ELSE IF ~VolumeTest(h, volume_window, breakout_volume_multiple, tie.volume).ok
    THEN VolumeTest(h, volume_window, breakout_volume_multiple, tie.volume)
    ELSE WishStrategyResult(outcomes[1], outcomes[2], outcomes[3], outcomes[4],
                            VolumeTest(h, volume_window,
                                       breakout_volume_multiple, tie.volume),
                            breakout_volume_multiple)

wish_strategy(h, glb, rwb, bongo_daily, bongo_weekly, volume_window, breakout_volume_multiple, tie) ==
    WishOnOutcomes(h,
        << OrCompute(glb, green_line_breakout(h, DefaultMinBaseMonths)),
           OrCompute(rwb, rwb_pattern(h, tie)),
           OrCompute(bongo_daily, bongo(h, "D", tie)),
           OrCompute(bongo_weekly, bongo(h, "W", tie)) >>,
        volume_window, breakout_volume_multiple, tie)

\* The roundings of a history
RoundingsOf(rwb, daily, weekly, slope, box, volume) ==
    [stack : Choices(rwb[1]), price : Choices(rwb[2]),
     daily : Choices(daily), weekly : Choices(weekly),
     daily_slope : Choices(slope[1]), weekly_slope : Choices(slope[2]),
     box : Choices(box), volume : Choices(volume)]

\* the roundings that make a difference on history h
Roundings(h) ==
    RoundingsOf(RwbUndecidedOn(FixSeries(h.close)),
                BongoUndecidedOn(BongoClose(h, "D")),
                BongoUndecidedOn(BongoClose(h, "W")),
                << SlopeUndecidedOn(BongoClose(h, "D")),
                   SlopeUndecidedOn(BongoClose(h, "W")) >>,
                \E a \in DarvasChoices :
                    darvas_box_breakout(h, a[1], a[2], a[3], [box |-> TRUE])
                        # darvas_box_breakout(h, a[1], a[2], a[3],
                                              [box |-> FALSE]),
                VolumeTest(h, DefaultVolumeWindow, DefaultVolumeMultiple, TRUE)
                    # VolumeTest(h, DefaultVolumeWindow, DefaultVolumeMultiple,
                                 FALSE))

----
\* models.py: IndicatorResult, ScreeningResult; build_indicator_results

IndicatorResult(name, passed, details) ==
    [name |-> name, passed |-> passed, details |-> details]

Rows(glb, darvas, rwb, bongo_daily, bongo_weekly, wish) ==
    << IndicatorResult("Green Line Breakout", glb.breakout,
           [prior_high |-> glb.prior_high, last_close |-> glb.last_close,
            months_since_prior_high |-> glb.months_since_prior_high,
            base_months |-> glb.base_months]),
       IndicatorResult("Darvas Box Breakout", darvas.breakout,
           [box_high |-> darvas.box_high, box_low |-> darvas.box_low,
            breakout_margin |-> darvas.breakout_margin]),
       IndicatorResult("RWB Pattern", rwb.rwb,
           [ribbon_spread |-> rwb.ribbon_spread]),
       IndicatorResult("Bongo Daily", bongo_daily.is_on,
           [macd |-> bongo_daily.macd, signal |-> bongo_daily.signal,
            slope_positive |-> bongo_daily.slope_positive]),
       IndicatorResult("Bongo Weekly", bongo_weekly.is_on,
           [macd |-> bongo_weekly.macd, signal |-> bongo_weekly.signal,
            slope_positive |-> bongo_weekly.slope_positive]),
       IndicatorResult("Wish GLB Checklist", wish.qualifies,
           [glb |-> wish.glb.breakout, rwb |-> wish.rwb.rwb,
            bongo_daily |-> wish.bongo_daily.is_on,
            bongo_weekly |-> wish.bongo_weekly.is_on,
            last_volume |-> wish.last_volume,
            average_volume |-> wish.average_volume,
            volume_ratio |-> wish.volume_ratio,
            volume_requirement |-> wish.volume_requirement,
            volume_ok |-> wish.volume_ok]) >>

\* lines 298-364, on the outcomes of lines 293-297
BuildOnOutcomes(h, outcomes, tie) ==
    IF ~AllRan(outcomes) THEN FirstRaised(outcomes)
    ELSE [ok |-> TRUE,
          rows |-> Rows(outcomes[1], outcomes[2], outcomes[3], outcomes[4],
                        outcomes[5],
                        wish_strategy(h, outcomes[1], outcomes[3], outcomes[4],
                                      outcomes[5], DefaultVolumeWindow,
                                      DefaultVolumeMultiple, tie))]

build_indicator_results(h, tie) ==
    BuildOnOutcomes(h,
        << green_line_breakout(h, DefaultMinBaseMonths),
           darvas_box_breakout(h, DefaultLookbackDays, DefaultMaxVolatility,
                               DefaultBreakoutBuffer, tie),
           rwb_pattern(h, tie),
           bongo(h, "D", tie),
           bongo(h, "W", tie) >>,
        tie)

ScreeningResult(ticker, as_of, indicator_results) ==
    [ok |-> TRUE, ticker |-> ticker, as_of |-> as_of,
     indicator_results |-> indicator_results]

\* screener.py: GlossaryScreener.screen with a data source that returns h
ScreenOnResults(h, ticker, built) ==
    IF ~built.ok THEN built
    ELSE ScreeningResult(ticker, AsOf(h), built.rows)

screen(h, ticker, tie) ==
    ScreenOnResults(h, ticker, build_indicator_results(h, tie))

----
\* data.py YFinanceDataSource.get_history and cli.py main

\* what yfinance returns for a ticker it has no prices for: an empty frame
NoData == [dates |-> <<>>, close |-> <<>>, volume |-> <<>>]

\* YFinanceDataSource.get_history, on the frame downloaded for the ticker
\* (its index is made a DatetimeIndex by pd.to_datetime)
get_history(download) ==
    IF Len(download.dates) = 0 THEN Raised("No price history")
    ELSE [ok |-> TRUE,
          history |-> PriceHistory(DatetimeIndex(download.dates),
                                   download.close, download.volume)]

\* GlossaryScreener.screen on the outcome of data_source.get_history
ScreenFetched(fetched, ticker, tie) ==
    IF ~fetched.ok THEN fetched ELSE screen(fetched.history, ticker, tie)

\* cli.py main lines 94-99: the results are printed and main returns 0
MainOnResults(results) ==
    IF ~AllRan(results) THEN FirstRaised(results)
    ELSE [ok |-> TRUE, printed |-> results, exit_code |-> 0]

\* data.py load_csv, on the frame pd.read_csv makes of the file: the columns
\* it names, its index (the first column, parsed as dates) and its Close and
\* Volume columns
load_csv(frame) ==
    IF ~({"Open", "High", "Low", "Close", "Adj Close", "Volume"}
            \subseteq frame.columns)
    THEN Raised("ValueError")
    ELSE IF frame.index.kind # "DatetimeIndex" THEN Raised("TypeError")
    ELSE [ok |-> TRUE,
          history |-> PriceHistory(frame.index, frame.close, frame.volume)]

\* cli.py _load_history_from_args: the tickers to screen, args.tickers or
\* [args.csv.stem] with --csv
TickersToScreen(tickers, csv) ==
    IF csv # None /\ Len(tickers) = 0 THEN <<csv.stem>> ELSE tickers

\* data_source.get_history(ticker): the history of the file with --csv,
\* else what YFinanceDataSource downloads, market[t] being the frame
\* downloaded for ticker t
Fetched(csv, market, ticker) ==
    IF csv # None THEN load_csv(csv.frame) ELSE get_history(market[ticker])

\* cli.py main: csv is None without --csv, else the file's stem and frame.
\* The file is loaded before any ticker is screened.
main(tickers, csv, market, tie) ==
    IF Len(tickers) = 0 /\ csv = None THEN Raised("SystemExit")
    ELSE IF csv # None /\ ~load_csv(csv.frame).ok THEN load_csv(csv.frame)
    ELSE MainOnResults([i \in 1..Len(TickersToScreen(tickers, csv)) |->
                           ScreenFetched(
                               Fetched(csv, market,
                                       TickersToScreen(tickers, csv)[i]),
                               TickersToScreen(tickers, csv)[i], tie)])

(***************************************************************************)
(* Histories the model starts from.                                        *)
(***************************************************************************)

\* 2022-01-03 and 2023-01-02, the Mondays the test histories start on
Start2022 == 2
Start2023 == 366

\* The volume the test histories carry on every session
TestVolume == 1000

ConstSeq(n, v) == [i \in 1..n |-> v]

\* a volume column that is v on every session but last on the final one
SurgeVolume(n, v, last) == [i \in 1..n |-> IF i = n THEN last ELSE v]

\* tests/test_indicators.py build_history: consecutive business days;
\* "volume = volume or [1_000.0] * len(close)": a volume that is None or
\* empty (here <<>>) is replaced by 1000.0 on every session
build_history(close, start, volume) ==
    PriceHistory(DatetimeIndex(BDateRange(start, Len(close), 1)), close,
                 IF volume = <<>> THEN ConstSeq(Len(close), TestVolume)
                 ELSE volume)

\* tests/test_indicators.py green line tests: every session of a month closes
\* at that month's value, sessions run from 2022-01-03 to the last business
\* day of the last month.
MonthlyHistory(month_values) ==
    LET n == BDaysBetween(Start2022, LastBDayOfMonth(Len(month_values) - 1))
        dates == BDateRange(Start2022, n, 1)
    IN  build_history([i \in 1..n |-> month_values[MonthOf(dates[i]) + 1]],
                      Start2022, ConstSeq(n, TestVolume))

MaxMonths == 4

RECURSIVE SeqsOfLen(_, _)
SeqsOfLen(S, n) ==
    IF n = 0 THEN {<<>>}
    ELSE {Append(s, x) : s \in SeqsOfLen(S, n - 1), x \in S}

\* The same months with one session a week only (every fifth business day)
ThinMonthlyHistory(month_values) ==
    LET n == BDaysBetween(Start2022, LastBDayOfMonth(Len(month_values) - 1))
        dates == BDateRange(Start2022, (n + 4) \div 5, 5)
    IN  PriceHistory(DatetimeIndex(dates),
                     [i \in 1..Len(dates) |-> month_values[MonthOf(dates[i]) + 1]],
                     ConstSeq(Len(dates), TestVolume))

\* The monthly closes of the two green line tests (in ticks of 0.5) and a
\* variant of the first with a month that closes back at the green line, on
\* every session; every sequence of closes 1, 2 or 3 over four to MaxMonths
\* months, on weekly sessions.
MonthlyHistories ==
    {MonthlyHistory(mv) : mv \in { <<40, 60, 56, 54, 58, 59, 62>>,
                                   <<40, 60, 60, 54, 58, 59, 62>>,
                                   <<40, 60, 60, 58, 59, 62>> }}
    \cup {ThinMonthlyHistory(mv) :
            mv \in UNION {SeqsOfLen({1, 2, 3}, n) : n \in 4..MaxMonths}}

\* Flat histories: every close is c.
ConstantHistories ==
    {build_history(ConstSeq(n, c), Start2023, <<>>) :
        n \in {65, 110}, c \in {-10, 0, 10}}

\* test_darvas_box_breakout_requires_consolidation, in ticks of 0.1
DarvasExampleClose == ConstSeq(60, 100) \o <<120, 122, 124, 128, 130>>

\* Two straight segments: slope s1 up to the last TrendTail sessions, slope
\* s2 over these.
TrendTail == 20

TrendBase == 1000

MaxSessions == 260

TrendHistories ==
    {build_history([i \in 1..n |->
                       IF i <= n - TrendTail
                       THEN TrendBase + s1 * (i - 1)
                       ELSE TrendBase + s1 * (n - TrendTail - 1)
                                + s2 * (i - (n - TrendTail))],
                   Start2022, ConstSeq(n, TestVolume)) :
        n \in {49, 50, 64, 65, 200, 250, MaxSessions},
        s1 \in {-2, 1, 2, 10}, s2 \in {-2, 1, 2, 10}}

\* test_screener_returns_indicator_results (from 20.0 in ticks of 0.1, on
\* either start) and test_bongo_daily_turns_on_with_rising_trend (from 30.0,
\* built without a volume): 200 sessions, one tick up per session.
Rising200Histories ==
    {build_history([i \in 1..200 |-> 200 + (i - 1)], st, ConstSeq(200, TestVolume)) :
        st \in {Start2022, Start2023}}
    \cup {build_history([i \in 1..200 |-> 300 + (i - 1)], Start2023, <<>>)}

\* test_wish_strategy_*: 220 sessions in ticks of 0.02, the last volume
\* 2.0 or 1.2 times the others.
LastVolumes == {1200, 2000}

WishTestHistories ==
    {build_history([i \in 1..220 |->
                       IF i <= 60 THEN 2000 + 10 * (i - 1)
                       ELSE IF i <= 160 THEN 2550 - (i - 61)
                       ELSE 2550 + 25 * (i - 161)],
                   Start2022, SurgeVolume(220, TestVolume, lv)) :
        lv \in LastVolumes}

\* A year with a high in February, a base below it until November and a
\* December that climbs 25 ticks a session from the base.
RampHistories ==
    LET dates == BDateRange(Start2022, 260, 1)
    IN  {PriceHistory(DatetimeIndex(dates),
                      [i \in 1..Len(dates) |->
                          LET m == MonthOf(dates[i])
                          IN  IF m = 0 THEN 800
                              ELSE IF m = 1 THEN 1000
                              ELSE IF m < 11 THEN 900
                              ELSE 900 + 25 * (dates[i] - MonthStart[12] + 1)],
                      SurgeVolume(260, TestVolume, lv)) : lv \in LastVolumes}

\* Thin histories: one session every sh[1] business days, sh[2] sessions,
\* the frame listing the newest session first.
SparseHistories ==
    {PriceHistory(DatetimeIndex([i \in 1..sh[2] |->
                      BDateRange(Start2022, sh[2], sh[1])[sh[2] + 1 - i]]),
                  [i \in 1..sh[2] |-> 100 + 2 * (sh[2] + 1 - i)],
                  ConstSeq(sh[2], TestVolume)) :
        sh \in {<<21, 7>>, <<5, 70>>, <<10, 30>>, <<10, 60>>}}

\* Volume columns on a short flat history.  With 970 on every session and
\* 1470 on the last, the mean of the window is 980 and the ratio 1.5.
VolumeLength == 55

VolumeHistories ==
    LET columns ==
    {SurgeVolume(VolumeLength, v, lv) : v \in {0, TestVolume}, lv \in {0, 1200, 2000}}
    \cup {SurgeVolume(VolumeLength, 970, 1470)}
    \cup {[i \in 1..VolumeLength |-> IF i <= 6 THEN NaN ELSE col[i]] :
            col \in {SurgeVolume(VolumeLength, TestVolume, lv) : lv \in LastVolumes}}
    \cup {[i \in 1..VolumeLength |-> IF i = VolumeLength THEN NaN ELSE TestVolume]}
    \cup {ConstSeq(VolumeLength, NaN), <<>>}
    \cup {SurgeVolume(VolumeLength, -1000, 2000),
          SurgeVolume(VolumeLength, TestVolume, -2000),
          [i \in 1..VolumeLength |->
               IF i = VolumeLength THEN 2000
               ELSE IF i = VolumeLength - 1 THEN -2000 ELSE 0]}
    IN  {PriceHistory(DatetimeIndex(BDateRange(Start2023, VolumeLength, 1)),
                      ConstSeq(VolumeLength, 100), col) : col \in columns}

\* Histories with missing closes: a rise of 200 sessions that lacks five
\* closes in the middle, or one among its last twelve, and 65 sessions
\* without any close.
GappedHistories ==
    {build_history(c, Start2022, ConstSeq(Len(c), TestVolume)) :
        c \in { [i \in 1..200 |-> IF i \in 101..105 THEN NaN ELSE 200 + (i - 1)],
                [i \in 1..200 |-> IF i = 190 THEN NaN ELSE 200 + (i - 1)],
                ConstSeq(65, NaN) }}

\* A rise that ends on a plateau, the averages closing in on the price
PlateauHistories ==
    {build_history([i \in 1..260 |-> IF i <= 196 THEN 100 ELSE 101], Start2022,
                   ConstSeq(260, TestVolume))}

\* A straight rise long enough for the MACD line and its signal line to
\* come closer than the rounding of the doubles.
LongRiseLength == 600

LongRiseHistories ==
    {build_history([i \in 1..LongRiseLength |-> 100 + i], Start2022,
                   ConstSeq(LongRiseLength, TestVolume))}

\* The history at -50 then -51 is one whose last close is the real number
\* box_high * 1.02.  On the two that follow it the last window of ten and
\* the one two sessions earlier have the same sum: closes that alternate,
\* and a flat series that jumps for two sessions, twice, ten sessions apart.
Histories ==
    MonthlyHistories \cup ConstantHistories
    \cup {build_history(c, Start2023, <<>>) :
             c \in {DarvasExampleClose, ConstSeq(64, -50) \o <<-51>>,
                    [i \in 1..60 |-> IF i % 2 = 1 THEN 231 ELSE 86],
                    ConstSeq(48, 100) \o <<130, 130>> \o ConstSeq(8, 100)
                        \o <<130, 130>>}}
    \cup TrendHistories \cup Rising200Histories \cup WishTestHistories
    \cup RampHistories \cup SparseHistories \cup VolumeHistories
    \cup GappedHistories \cup PlateauHistories \cup LongRiseHistories

(***************************************************************************)
(* The state machine: a history is given, one operation is called on it    *)
(* and its outcome (a result or the error raised) is recorded.             *)
(***************************************************************************)

NoCall == [op |-> "none", args |-> <<>>]

Init ==
    /\ history \in Histories
    /\ rounding \in Roundings(history)
    /\ call = NoCall
    /\ result = None

Called(op, args, outcome) ==
    /\ call = NoCall
    /\ call' = [op |-> op, args |-> args]
    /\ result' = outcome
    /\ UNCHANGED <<history, rounding>>

MinBaseChoices == {2, DefaultMinBaseMonths}

GreenLineBreakout ==
    \E m \in MinBaseChoices :
        Called("green_line_breakout", <<m>>, green_line_breakout(history, m))

DarvasBoxBreakout ==
    \E a \in DarvasChoices :
        Called("darvas_box_breakout", a,
               darvas_box_breakout(history, a[1], a[2], a[3], rounding))

RwbPattern == Called("rwb_pattern", <<>>, rwb_pattern(history, rounding))

Bongo ==
    \E tf \in {"D", "W", "M"} : Called("bongo", <<tf>>, bongo(history, tf, rounding))

\* Outcomes a caller may pass to wish_strategy
GivenGlb(b) == GreenLineBreakoutResult(b, 60, 62, 5, 4)
GivenBongo(tf, b) == BongoResult(tf, b, Exact(3), Exact(2), b)

\* nothing given; all four given: all passed, or all but one; or only the
\* green line and the daily bongo given
GivenChoices ==
    {<<None, None, None, None>>}
    \cup {<<GivenGlb(v[1]), RWBResult(v[2], Exact(7)), GivenBongo("D", v[3]),
            GivenBongo("W", v[4])>> :
            v \in {w \in [1..4 -> BOOLEAN] : Cardinality({i \in 1..4 : ~w[i]}) <= 1}}
    \cup {<<GivenGlb(TRUE), None, GivenBongo("D", TRUE), None>>}

\* volume_window is the default, or (with all four outcomes given) a
\* window of no session or one below nought
WishStrategy ==
    \E a \in GivenChoices, w \in {-1, 0, DefaultVolumeWindow} :
        /\ w # DefaultVolumeWindow => \A i \in 1..4 : a[i] # None
        /\ Called("wish_strategy", a \o <<w>>,
                  wish_strategy(history, a[1], a[2], a[3], a[4],
                                w, DefaultVolumeMultiple, rounding))

BuildIndicatorResults ==
    Called("build_indicator_results", <<>>,
           build_indicator_results(history, rounding))

Tickers == {"TEST", "ACME"}

Screen ==
    \E t \in Tickers : Called("screen", <<t>>, screen(history, t, rounding))

\* What the data source downloads: the history for TEST; nothing, or a
\* history every detector runs on (70 weekly sessions), for ACME
Markets ==
    {[t \in Tickers |-> IF t = "TEST" THEN history ELSE other] :
        other \in {NoData,
                   PriceHistory(DatetimeIndex(BDateRange(Start2022, 70, 5)),
                                [i \in 1..70 |-> 100 + 2 * i],
                                ConstSeq(70, TestVolume))}}

\* The command lines: no ticker, or the two tickers in either order,
\* without --csv; no ticker or the two tickers with --csv.  The file holds
\* the history as Yahoo exports it (a history without volumes lacks the
\* Volume column) or lacks its Adj Close column, and its first column holds
\* the dates or something that is no date.
Main ==
    \/ \E tickers \in {<<>>, <<"TEST", "ACME">>, <<"ACME", "TEST">>},
          market \in Markets :
           Called("main", <<tickers, None, market>>,
                  main(tickers, None, market, rounding))
    \/ \E tickers \in {<<>>, <<"TEST", "ACME">>},
          columns \in {{"Open", "High", "Low", "Close", "Adj Close"}
                          \cup (IF history.volume = <<>> THEN {} ELSE {"Volume"}),
                       {"Open", "High", "Low", "Close", "Volume"}},
          index \in {DatetimeIndex(history.dates), RangeIndex(Len(history.dates))} :
           Called("main",
                  <<tickers,
                    [stem |-> "TEST",
                     frame |-> [columns |-> columns, index |-> index,
                                close |-> history.close,
                                volume |-> history.volume]],
                    [t \in Tickers |-> NoData]>>,
                  main(tickers,
                       [stem |-> "TEST",
                        frame |-> [columns |-> columns, index |-> index,
                                   close |-> history.close,
                                   volume |-> history.volume]],
                       [t \in Tickers |-> NoData], rounding))

Next ==
    \/ GreenLineBreakout
    \/ DarvasBoxBreakout
    \/ RwbPattern
    \/ Bongo
    \/ WishStrategy
    \/ BuildIndicatorResults
    \/ Screen
    \/ Main

Spec == Init /\ [][Next]_vars

(***************************************************************************)
(* Properties.                                                             *)
(***************************************************************************)

\* The monthly closes of the history, oldest first
MonthlyValues == Values(MonthlyClose(history))

IsGlbCall(m) == call = [op |-> "green_line_breakout", args |-> <<m>>]

IsWishCall == call.op = "wish_strategy"

\* C1: wish_strategy returns qualifies = true exactly when glb.breakout,
\* rwb.rwb, bongo_daily.is_on, bongo_weekly.is_on and volume_ok are all true.
C1_QualifiesIffAllFive ==
    (IsWishCall /\ result.ok) =>
        (result.qualifies <=>
            (/\ result.glb.breakout
             /\ result.rwb.rwb
             /\ result.bongo_daily.is_on
             /\ result.bongo_weekly.is_on
             /\ result.volume_ok))

\* C1 witness: the four detectors, computed from the history, all pass and
\* the volume test alone fails the checklist.
C1_VolumeAloneFails ==
    /\ IsWishCall /\ (\A i \in 1..4 : call.args[i] = None) /\ result.ok
    /\ result.glb.breakout /\ result.rwb.rwb
    /\ result.bongo_daily.is_on /\ result.bongo_weekly.is_on
    /\ ~result.volume_ok /\ ~result.qualifies

\* The first month whose close reaches the prior high
FirstAtHigh(mv) ==
    SetMin({i \in 1..(Len(mv) - 1) :
              \A j \in 1..(Len(mv) - 1) : mv[j] <= mv[i]})

\* Some month after the first one at the prior high and before the final
\* month closes at the prior high again.
TieAfterHigh(mv) ==
    \E j \in (FirstAtHigh(mv) + 1)..(Len(mv) - 1) : mv[j] = mv[FirstAtHigh(mv)]

\* C2 (as claimed): with min_base_months = 3, green_line_breakout returns
\* breakout = false whenever a monthly close after the first month at the
\* prior high and before the final month equals the prior high.
C2_TieBlocksBreakout ==
    (IsGlbCall(DefaultMinBaseMonths) /\ result.ok /\ TieAfterHigh(MonthlyValues))
        => ~result.breakout

\* The latest month before the final one whose close is the maximum of the
\* closes before the final one
LatestAtHigh(mv) ==
    SetMax({i \in 1..(Len(mv) - 1) :
              \A j \in 1..(Len(mv) - 1) : mv[j] <= mv[i]})

\* C3: on at least min_base_months + 2 monthly closes green_line_breakout
\* reports prior_high = the maximum of the closes before the last,
\* base_months = the number of months strictly between the latest month at
\* that maximum and the final month, and breakout exactly when the latest
\* close is above prior_high, base_months >= min_base_months and every base
\* close is below prior_high.
C3_GreenLineReport ==
    \A m \in MinBaseChoices :
        (IsGlbCall(m) /\ Len(MonthlyValues) >= m + 2) =>
            LET mv == MonthlyValues
                n == Len(mv)
                high == LatestAtHigh(mv)
            IN  /\ result.ok
                /\ result.prior_high = mv[high]
                /\ \A j \in 1..(n - 1) : mv[j] <= result.prior_high
                /\ result.base_months = Cardinality((high + 1)..(n - 1))
                /\ result.breakout <=>
                      (/\ mv[n] > mv[high]
                       /\ Cardinality((high + 1)..(n - 1)) >= m
                       /\ \A j \in (high + 1)..(n - 1) : mv[j] < mv[high])

\* C3 witness: the example, monthly closes 20, 30, 28, 27, 29, 29.5, 31 in
\* half-unit ticks: prior_high = 30, base_months = 4, breakout.
C3_ExampleBreaksOut ==
    /\ IsGlbCall(DefaultMinBaseMonths)
    /\ MonthlyValues = <<40, 60, 56, 54, 58, 59, 62>>
    /\ result.ok /\ result.breakout
    /\ result.prior_high = 60 /\ result.base_months = 4

DarvasDefaults ==
    <<DefaultLookbackDays, DefaultMaxVolatility, DefaultBreakoutBuffer>>

IsDarvasCall(a) == call = [op |-> "darvas_box_breakout", args |-> a]

\* C4 (as claimed): on 60 sessions at 10.0 followed by 12.0, 12.2, 12.4,
\* 12.8, 13.0, darvas_box_breakout with lookback_days = 55,
\* max_volatility = 0.25 and breakout_buffer = 0.01 returns breakout = true
\* with box_high < box_low * 1.3.
C4_ExampleBreaksOut ==
    (IsDarvasCall(<<55, DefaultMaxVolatility, 1>>)
     /\ history.close = DarvasExampleClose) =>
        /\ result.ok
        /\ result.breakout
        /\ result.box_high * 10 < result.box_low * 13

IsFlat(close) == \A i \in 1..Len(close) : ~IsNaN(close[i]) /\ close[i] = close[1]

\* C5 (as claimed): on a history whose closes all equal the same value c,
\* whatever c is, darvas_box_breakout (given its 65 sessions) and
\* green_line_breakout (given its 5 monthly closes) with default parameters
\* run and report breakout = false.
C5_FlatNeverBreaksOut ==
    /\ (/\ IsFlat(history.close)
         /\ IsDarvasCall(DarvasDefaults)
         /\ Len(history.close) >= DefaultLookbackDays)
            => (result.ok /\ ~result.breakout)
    /\ (/\ IsFlat(history.close)
         /\ IsGlbCall(DefaultMinBaseMonths)
         /\ Len(MonthlyValues) >= DefaultMinBaseMonths + 2)
            => (result.ok /\ ~result.breakout)

StrictlyIncreasing(s) ==
    \A i \in 1..(Len(s) - 1) :
        ~IsNaN(s[i]) /\ ~IsNaN(s[i + 1]) /\ s[i] < s[i + 1]

\* every observation is the one before plus the same positive step
SteadyRise(s) ==
    /\ Len(s) >= 2
    /\ StrictlyIncreasing(s)
    /\ \A i \in 1..(Len(s) - 1) : s[i + 1] - s[i] = s[2] - s[1]

IsBongoCall(tf) == call = [op |-> "bongo", args |-> <<tf>>]

\* The series of the timeframe, before any arithmetic
TimeframeClose(tf) ==
    IF tf = "W" THEN Values(WeeklyClose(history)) ELSE history.close

\* C6 (as claimed): on every increasing close series that leaves at least 50
\* observations in the series of the timeframe, daily or weekly, bongo
\* returns is_on = true and slope_positive = true.
C6_RisingTurnsBongoOn ==
    \A tf \in {"D", "W"} :
        (/\ IsBongoCall(tf)
         /\ StrictlyIncreasing(history.close)
         /\ Len(DropNa(TimeframeClose(tf))) >= BongoMinLength) =>
            (result.ok /\ result.is_on /\ result.slope_positive)

\* none of the last twelve rows of the series is missing: the rows of the
\* two windows of ten the slope is taken from
SlopeRowsPresent(s) == \A i \in (Len(s) - 11)..Len(s) : ~IsNaN(s[i])

\* macd > signal on the doubles bongo returned, the rounding deciding when
\* they are closer than their bounds
ReturnedMacdAbove(tf) ==
    FloatGt(result.macd, result.signal,
            IF tf = "W" THEN rounding.weekly ELSE rounding.daily)

\* a rise of 10 a session that slows to 1 a session over the last 20
SlowingRise(n) ==
    [i \in 1..n |-> IF i <= n - TrendTail
                    THEN TrendBase + 10 * (i - 1)
                    ELSE TrendBase + 10 * (n - TrendTail - 1) + (i - (n - TrendTail))]

\* test_bongo_daily_turns_on_with_rising_trend, in ticks of 0.1
DailyTestRise == [i \in 1..200 |-> 300 + (i - 1)]

\* C6 (amended): when the series of the timeframe (the daily closes, or the
\* last close of every Friday week, a week without a session being a
\* missing row) holds at least 50 observations and these are strictly
\* increasing, bongo returns a result in which slope_positive is true
\* exactly when none of the last twelve rows of the series is missing and
\* is_on is true exactly when slope_positive is true and the returned macd
\* is greater than the returned signal.  On a rise of 250 sessions that
\* slows from 10 to 1 a session over the last 20 is_on is false on the
\* daily series; on the 200-session straight rise of
\* test_bongo_daily_turns_on_with_rising_trend it is true.
C6_RisingSlopeAndSignal ==
    \A tf \in {"D", "W"} :
        (/\ IsBongoCall(tf)
         /\ Len(DropNa(TimeframeClose(tf))) >= BongoMinLength
         /\ StrictlyIncreasing(DropNa(TimeframeClose(tf)))) =>
            /\ result.ok
            /\ result.slope_positive <=> SlopeRowsPresent(TimeframeClose(tf))
            /\ result.is_on <=> (result.slope_positive /\ ReturnedMacdAbove(tf))
            /\ (tf = "D" /\ history.close = SlowingRise(250)) => ~result.is_on
            /\ (tf = "D" /\ history.close = DailyTestRise) => result.is_on

\* C6 witness: on the 200-session straight rise of the daily test, daily
\* bongo returns macd above signal, a positive slope and is_on = true.
C6_DailyTestRiseOn ==
    /\ IsBongoCall("D")
    /\ history.close = DailyTestRise
    /\ result.ok /\ result.is_on /\ result.slope_positive
    /\ Exceeds(Minus(result.macd, result.signal))

\* C7: on every strictly increasing close series of at least 65 observations
\* rwb_pattern returns rwb = true and ribbon_spread > 0 (the spread is above
\* zero by more than its bound).
C7_RisingStacksRibbons ==
    (/\ call.op = "rwb_pattern"
     /\ Len(history.close) >= SetMax(LongSpans) + RwbMargin
     /\ StrictlyIncreasing(history.close)) =>
        /\ result.ok
        /\ result.rwb
        /\ Exceeds(result.ribbon_spread)

\* C7 witness: an increasing series that is not a straight line, of exactly
\* 65 observations, stacks the ribbons.
C7_BentRiseStacked ==
    /\ call.op = "rwb_pattern"
    /\ Len(history.close) = SetMax(LongSpans) + RwbMargin
    /\ StrictlyIncreasing(history.close) /\ ~SteadyRise(history.close)
    /\ result.ok /\ result.rwb /\ Exceeds(result.ribbon_spread)

\* 200 consecutive business days with strictly increasing closes
Rising200Sessions ==
    /\ Len(history.close) = 200
    /\ history.dates = BDateRange(history.dates[1], 200, 1)
    /\ StrictlyIncreasing(history.close)

\* C8 (as claimed): on 200 consecutive business-day sessions with strictly
\* increasing closes, weekly bongo returns is_on = true, and screen returns
\* a ScreeningResult for the requested ticker whose rows include
\* "Wish GLB Checklist" and a row that passed.
C8_TwoHundredSessionsSuffice ==
    Rising200Sessions =>
        /\ IsBongoCall("W") => (result.ok /\ result.is_on)
        /\ call.op = "screen" =>
              /\ result.ok
              /\ result.ticker = call.args[1]
              /\ \E i \in 1..Len(result.indicator_results) :
                    result.indicator_results[i].name = "Wish GLB Checklist"
              /\ \E i \in 1..Len(result.indicator_results) :
                    result.indicator_results[i].passed

\* The detectors build_indicator_results calls, in its call order
DetectorOutcomes ==
    << green_line_breakout(history, DefaultMinBaseMonths),
       darvas_box_breakout(history, DefaultLookbackDays, DefaultMaxVolatility,
                           DefaultBreakoutBuffer, rounding),
       rwb_pattern(history, rounding),
       bongo(history, "D", rounding),
       bongo(history, "W", rounding) >>

RowNames ==
    << "Green Line Breakout", "Darvas Box Breakout", "RWB Pattern",
       "Bongo Daily", "Bongo Weekly", "Wish GLB Checklist" >>

FailsAt(outcomes, i) ==
    ~outcomes[i].ok /\ \A j \in 1..(i - 1) : outcomes[j].ok

\* C9: build_indicator_results either raises the error of the first of green
\* line, Darvas box, RWB, daily bongo and weekly bongo that cannot run, with
\* no rows, or returns exactly the six rows Green Line Breakout, Darvas Box
\* Breakout, RWB Pattern, Bongo Daily, Bongo Weekly, Wish GLB Checklist in
\* that order.
C9_AllRowsOrFirstError ==
    call.op = "build_indicator_results" =>
        LET outcomes == DetectorOutcomes
        IN  \/ /\ ~result.ok
               /\ \E i \in 1..5 : FailsAt(outcomes, i) /\ result = outcomes[i]
            \/ /\ result.ok
               /\ \A i \in 1..5 : outcomes[i].ok
               /\ [i \in 1..Len(result.rows) |-> result.rows[i].name] = RowNames

\* C9 witness: green line runs, the Darvas box cannot, and its error is the
\* outcome although weekly bongo cannot run either.
C9_DarvasErrorFirst ==
    /\ call.op = "build_indicator_results"
    /\ green_line_breakout(history, DefaultMinBaseMonths).ok
    /\ ~bongo(history, "W", rounding).ok
    /\ result = Raised("darvas_box_breakout")

\* The volume test as claimed, on the volume column of the history
ClaimedVolumeOk(window, multiple) ==
    LET obs == DropNa(history.volume)
        n == Len(obs)
    IN  /\ n >= window
        /\ LET total == SumRange(obs, n - window + 1, n)
           IN  IF total > 0 THEN obs[n] * window * 100 >= multiple * total
               ELSE total = 0 /\ obs[n] > 0

\* C10 (as claimed): volume_ok is true exactly when at least volume_window
\* volume observations remain after dropping the missing ones and the ratio
\* is at least breakout_volume_multiple, the ratio being latest / mean when
\* the mean of the window is > 0, +infinity when the mean is 0 and the
\* latest volume is > 0, and not available otherwise (checked on the calls
\* with the default window of 50).
C10_VolumeOkIff ==
    (IsWishCall /\ call.args[5] = DefaultVolumeWindow /\ result.ok) =>
        (result.volume_ok <=>
            ClaimedVolumeOk(DefaultVolumeWindow, DefaultVolumeMultiple))

\* The Friday-ending weeks that hold at least one daily close
ObservedWeeks ==
    {WeekOf(history.dates[i]) :
        i \in {j \in 1..Len(history.dates) : ~IsNaN(history.close[j])}}

\* C11 (as claimed): bongo with timeframe 'W' raises the insufficient-data
\* error exactly when fewer than 50 Friday-ending weeks hold at least one
\* daily close; weeks without an observation do not count.
C11_WeeklyRaisesIffFewWeeks ==
    IsBongoCall("W") =>
        (result = Raised("bongo")
            <=> Cardinality(ObservedWeeks) < BongoMinLength)

DarvasWindow(lookback_days) == Tail_(history.close, lookback_days)

WindowValues(lookback_days) ==
    {DarvasWindow(lookback_days)[i] : i \in 1..Len(DarvasWindow(lookback_days))}

\* The verdict as claimed: volatility (box_high - box_low) / box_low, infinite
\* when box_low <= 0, at most max_volatility, and the last close of the
\* window at least box_high * (1 + breakout_buffer).
ClaimedDarvasBreakout(lookback_days, max_volatility, breakout_buffer) ==
    LET box_high == SeriesMax(DarvasWindow(lookback_days))
        box_low == SeriesMin(DarvasWindow(lookback_days))
    IN  /\ ~IsNaN(box_low) /\ ~IsNaN(Latest(history.close))
        /\ box_low > 0
        /\ (box_high - box_low) * 100 <= max_volatility * box_low
        /\ Latest(history.close) * 100 >= box_high * (100 + breakout_buffer)

\* C12 (as claimed): on a history of at least lookback_days sessions
\* darvas_box_breakout returns breakout = true exactly when volatility <=
\* max_volatility and the last close >= box_high * (1 + breakout_buffer),
\* volatility being infinite whenever box_low is zero or negative; so
\* breakout = false whenever the minimum close of the window is <= 0.
C12_DarvasVerdictIff ==
    \A a \in DarvasChoices :
        (IsDarvasCall(a) /\ Len(history.close) >= a[1]) =>
            /\ result.ok
            /\ result.breakout <=> ClaimedDarvasBreakout(a[1], a[2], a[3])

\* The outcome of screening ticker i of the batch on its own
ScreenedAlone(tickers, csv, market, i) ==
    ScreenFetched(Fetched(csv, market, tickers[i]), tickers[i], rounding)

\* C13 (as claimed): when main screens several tickers and the screening of
\* one fails while that of another succeeds, main still ends normally and
\* the result of every ticker that can be screened is emitted.
C13_BatchSurvivesFailure ==
    call.op = "main" =>
        LET tickers == TickersToScreen(call.args[1], call.args[2])
            alone == [i \in 1..Len(tickers) |->
                         ScreenedAlone(tickers, call.args[2], call.args[3], i)]
        IN  (/\ \E i \in 1..Len(tickers) : ~alone[i].ok
             /\ \E i \in 1..Len(tickers) : alone[i].ok) =>
                /\ result.ok
                /\ \A i \in 1..Len(tickers) :
                      alone[i].ok =>
                          \E k \in 1..Len(result.printed) :
                              result.printed[k] = alone[i]

\* What wish_strategy computes for its i-th outcome when it is omitted
WishDetector(i) ==
    CASE i = 1 -> green_line_breakout(history, DefaultMinBaseMonths)
      [] i = 2 -> rwb_pattern(history, rounding)
      [] i = 3 -> bongo(history, "D", rounding)
      [] i = 4 -> bongo(history, "W", rounding)

\* The i-th outcome in the result of wish_strategy
WishOutcome(i) ==
    CASE i = 1 -> result.glb
      [] i = 2 -> result.rwb
      [] i = 3 -> result.bongo_daily
      [] i = 4 -> result.bongo_weekly

\* C14: wish_strategy returns every supplied outcome unchanged and computes
\* only the omitted ones.  It returns exactly when every omitted detector
\* runs and the volume window is not below nought on a history with a
\* volume observation; the error it raises is that of an omitted detector
\* or the one of the window, so it never raises an insufficient-data
\* error when all four are supplied.  In build_indicator_results the
\* checklist row's glb, rwb, bongo_daily and bongo_weekly flags equal the
\* passed flags of rows 1, 3, 4 and 5.
C14_SuppliedOutcomesVerbatim ==
    /\ IsWishCall =>
          /\ result.ok <=>
                /\ \A i \in 1..4 : call.args[i] = None => WishDetector(i).ok
                /\ call.args[5] >= 0 \/ DropNa(history.volume) = <<>>
          /\ ~result.ok =>
                \/ result = Raised("window")
                \/ \E i \in 1..4 : call.args[i] = None /\ result = WishDetector(i)
          /\ result.ok =>
                \A i \in 1..4 :
                    WishOutcome(i) = IF call.args[i] = None THEN WishDetector(i)
                                     ELSE call.args[i]
    /\ (call.op = "build_indicator_results" /\ result.ok) =>
          /\ result.rows[6].details.glb = result.rows[1].passed
          /\ result.rows[6].details.rwb = result.rows[3].passed
          /\ result.rows[6].details.bongo_daily = result.rows[4].passed
          /\ result.rows[6].details.bongo_weekly = result.rows[5].passed

\* C14 witness: all four outcomes are supplied on a history on which the
\* green line detector cannot run; the result carries the supplied ones, a
\* failed green line verdict among them.
C14_SuppliedOnShortHistory ==
    /\ IsWishCall
    /\ \A i \in 1..4 : call.args[i] # None
    /\ ~green_line_breakout(history, DefaultMinBaseMonths).ok
    /\ ~call.args[1].breakout
    /\ result.ok /\ result.glb = call.args[1] /\ ~result.qualifies

\* C15: whenever green_line_breakout returns, every monthly close of the
\* base (the base_months months before the final one) is strictly below
\* prior_high, so breakout is exactly: confirming close > prior_high and
\* base_months >= min_base_months.
C15_BaseAlwaysBelowPrior ==
    \A m \in MinBaseChoices :
        (IsGlbCall(m) /\ result.ok) =>
            /\ \A j \in (Len(MonthlyValues) - result.base_months)
                          ..(Len(MonthlyValues) - 1) :
                   MonthlyValues[j] < result.prior_high
            /\ result.breakout <=>
                  (/\ result.last_close > result.prior_high
                   /\ result.base_months >= m)

\* C15 witness: the prior high is reached twice, the base after the second
\* time stays below it and the breakout is reported.
C15_BaseAfterRepeatedHigh ==
    /\ IsGlbCall(DefaultMinBaseMonths)
    /\ result.ok /\ result.breakout
    /\ TieAfterHigh(MonthlyValues)
    /\ result.base_months >= DefaultMinBaseMonths

\* C16: when every close of the trailing lookback_days window is strictly
\* positive and breakout_buffer > 0, darvas_box_breakout returns
\* breakout = false and a breakout margin that is not positive.
C16_PositiveWindowNeverBreaksOut ==
    \A a \in DarvasChoices :
        (/\ IsDarvasCall(a)
         /\ a[3] > 0
         /\ Len(history.close) >= a[1]
         /\ \A v \in WindowValues(a[1]) : v > 0) =>
            /\ result.ok
            /\ ~result.breakout
            /\ result.margin_sign <= 0

\* C16 witness: a rising series within a tight box: the volatility test
\* passes, the last close is the box high itself and no breakout is reported.
C16_RisingTightBoxStaysIn ==
    /\ IsDarvasCall(DarvasDefaults)
    /\ StrictlyIncreasing(history.close)
    /\ result.ok
    /\ result.box_low > 0
    /\ (result.box_high - result.box_low) * 100
          <= DefaultMaxVolatility * result.box_low
    /\ ~result.breakout /\ result.margin_sign = 0

====
